---- MODULE Spec2Model ----
(***************************************************************************)
(* Model of the task-tracking HTTP API of src/main.rs: the login handler,  *)
(* the auth gate (ensure_auth), the five task handlers, and the tasks      *)
(* table they share.  A handler is one atomic step up to its store call;   *)
(* update_task makes two store calls (SELECT, then UPDATE) and is two      *)
(* steps, so that other requests interleave between its read and write.    *)
(* The store never fails on I/O: the only Internal (500) modelled is the   *)
(* one sqlx's fetch_one raises when UPDATE ... RETURNING yields no row.    *)
(* A handler's extractors (web::Json) run before its body, so a body that  *)
(* does not deserialize is answered 400 before ensure_auth is called.      *)
(*                                                                         *)
(* Spec is the whole server (login, clock, every configuration) serving    *)
(* one update at a time; SpecStore is the task handlers of an open server  *)
(* serving two updates concurrently.                                       *)
(***************************************************************************)
EXTENDS Integers, Sequences, FiniteSets

\* ---------------------------------------------------------------- bounds
MaxTasks == 2       \* rows ever inserted
MaxTicks == 1       \* clock advances
MaxTokens == 1      \* tokens ever issued

\* ------------------------------------------------------ program constants
TokenHours == 12
SecondsPerHour == 3600
\* jsonwebtoken's Validation::new sets leeway to 60 seconds; the handler
\* never changes it.
Leeway == 60
MinTitleLen == 1

TokenTTL == TokenHours * SecondsPerHour

\* ------------------------------------------------------------ input sets
\* A string is the sequence of its characters.
Blank == <<" ">>
Titles == {<<>>, Blank, <<"a">>}
Credentials == {<<>>, Blank, <<"a">>}
Ids == 1..MaxTasks
Workers == {"u1", "u2"}
\* The clock advances by one of these amounts: to just past a token's expiry,
\* or to just past its expiry plus the verifier's leeway.
TickSteps == {TokenTTL + 1, TokenTTL + Leeway + 1}

\* Option<T>: None is the empty sequence, Some(x) the one-element sequence.
None == <<>>
Some(x) == <<x>>

VARIABLES
    jwt_enabled,            \* AppState.jwt_enabled (JWT_SECRET is set)
    read_only_without_jwt,  \* AppState.read_only_without_jwt
    now,                    \* the wall clock, epoch seconds
    ticks,                  \* clock advances so far
    issued,                 \* the tokens login has signed with the secret
    store,                  \* the tasks table: id -> row
    last_id,                \* the largest id the table has ever assigned
    upd,                    \* per worker: the update request it is handling
    resp,                   \* the last response sent: operation, path id,
                            \*   status, the tasks in its body, and the request
                            \*   body of a create or of a completed update
    created,                \* ids returned by create, in order (history)
    gone,                   \* ids deleted with 204 and not re-assigned (history)
    ack_title               \* id -> the title of the last update answered 200
                            \*       that supplied one (history)

vars == <<jwt_enabled, read_only_without_jwt, now, ticks, issued, store,
          last_id, upd, resp, created, gone, ack_title>>

\* ------------------------------------------------------------- helpers
RECURSIVE trim_start(_)
trim_start(s) ==
    IF s = <<>> THEN s
    ELSE IF Head(s) = " " THEN trim_start(Tail(s)) ELSE s

RECURSIVE trim_end(_)
trim_end(s) ==
    IF s = <<>> THEN s
    ELSE IF s[Len(s)] = " " THEN trim_end(SubSeq(s, 1, Len(s) - 1)) ELSE s

\* str::trim
trim(s) == trim_end(trim_start(s))

SetMax(S) == CHOOSE m \in S : \A x \in S : x <= m

\* SELECT ... ORDER BY id DESC
RECURSIVE rows_desc(_, _)
rows_desc(st, S) ==
    IF S = {} THEN <<>>
    ELSE LET m == SetMax(S) IN <<st[m]>> \o rows_desc(st, S \ {m})

\* ------------------------------------------------------------ requests
\* The Authorization header: absent, or a scheme and a token.  A token is
\* the claims it carries and the key it was signed with.
ForgedToken == [sub |-> <<"a">>, exp |-> now + TokenTTL, key |-> "other"]
Tokens == issued \cup {ForgedToken}
Headers == {<<>>} \cup {<<s, t>> : s \in {"Basic", "Bearer"}, t \in Tokens}

\* A JSON body either deserializes into the handler's struct or does not.
Unparsed == [parsed |-> FALSE]
NoBody == [parsed |-> TRUE]
CreateBodies == {Unparsed} \cup {[parsed |-> TRUE, title |-> t] : t \in Titles}
StoreCreateBodies == {b \in CreateBodies : ~b.parsed \/ b.title # Blank}
UpdateBodies ==
    {Unparsed} \cup
    {[parsed |-> TRUE, title |-> t, completed |-> c] :
        t \in {None} \cup {Some(x) : x \in {<<>>, <<"b">>}},
        c \in {None, Some(TRUE)}}
\* The update bodies the whole-server specification draws from.
FewUpdateBodies ==
    {b \in UpdateBodies :
        ~b.parsed \/ (b.title = None /\ b.completed = Some(TRUE))
                  \/ (b.title = Some(<<>>) /\ b.completed = None)}
LoginBodies ==
    {Unparsed} \cup
    {[parsed |-> TRUE, username |-> u, password |-> p] :
        u \in Credentials, p \in Credentials}

Response(op, id, body, status, tasks) ==
    [op |-> op, id |-> id, body |-> body, status |-> status, tasks |-> tasks]

Idle == [phase |-> "idle"]

\* ------------------------------------------------------------ auth gate
\* auth.strip_prefix("Bearer ")
has_bearer_prefix(h) == Len(h) = 2 /\ h[1] = "Bearer"

\* decode::<Claims>(token, &key, &validation): the signature verifies under
\* the server's secret and exp is not more than the leeway in the past.
decode_ok(tok) == tok.key = "server" /\ tok.exp >= now - Leeway

ensure_auth(h, method) ==
    IF ~jwt_enabled THEN TRUE
    ELSE IF read_only_without_jwt /\ method = "GET" THEN TRUE
    ELSE IF ~has_bearer_prefix(h) THEN FALSE
    ELSE decode_ok(h[2])

\* ------------------------------------------------------------ validation
\* Mutant: the title is never validated.
validate_create_skipped(b) == TRUE

\* #[validate(length(min = 1))] on CreateTask.title
validate_create(b) == Len(b.title) >= MinTitleLen

\* Mutant: the Option field is never validated.
validate_update_skipped(b) == TRUE

\* #[validate(length(min = 1))] on UpdateTask.title: Option, checked if Some
validate_update(b) == b.title = None \/ Len(b.title[1]) >= MinTitleLen

\* ------------------------------------------------------------ the store
\* The id the table assigns to the next inserted row: one it has never
\* assigned before (the schema script is not part of the sources read here).
next_id == last_id + 1

\* Mutant: the row is inserted as completed.
insert_row_completed(title) ==
    [id |-> next_id, title |-> title, completed |-> TRUE, created_at |-> now]

\* INSERT INTO tasks (title, completed) VALUES (?, false); created_at is
\* the store's time of insertion.
insert_row(title) ==
    [id |-> next_id, title |-> title, completed |-> FALSE, created_at |-> now]

\* Mutant: the supplied title is dropped.
merged_keep_title(b, current) ==
    [current EXCEPT
        !.completed = IF b.completed = None THEN current.completed
                      ELSE b.completed[1]]

\* new_title / new_completed of update_task
merged(b, current) ==
    [current EXCEPT
        !.title = IF b.title = None THEN current.title ELSE b.title[1],
        !.completed = IF b.completed = None THEN current.completed
                      ELSE b.completed[1]]

\* Mutant: the merge reads the row again at write time (an atomic update).
base_row_reread(w) ==
    IF upd[w].id \in DOMAIN store THEN store[upd[w].id] ELSE upd[w].current

\* The row update_task merges the payload into: the one its SELECT returned.
base_row(w) == upd[w].current

\* Mutant: the write inserts the row when it is missing (an upsert).
apply_update_upsert(st, id, row) ==
    [i \in DOMAIN st \cup {id} |-> IF i = id THEN row ELSE st[i]]

\* UPDATE tasks SET title = ?, completed = ? WHERE id = ?
apply_update(st, id, row) ==
    IF id \in DOMAIN st
    THEN [st EXCEPT ![id].title = row.title, ![id].completed = row.completed]
    ELSE st

\* DELETE FROM tasks WHERE id = ?
apply_delete(st, id) == [i \in DOMAIN st \ {id} |-> st[i]]

\* -------------------------------------------------------------- Init
Init ==
    /\ jwt_enabled \in BOOLEAN
    /\ read_only_without_jwt \in BOOLEAN
    /\ now = 0
    /\ ticks = 0
    /\ issued = {}
    /\ store = <<>>
    /\ last_id = 0
    /\ upd = [w \in Workers |-> Idle]
    /\ resp = Response("none", 0, NoBody, 0, <<>>)
    /\ created = <<>>
    /\ gone = {}
    /\ ack_title = [i \in Ids |-> None]

\* ------------------------------------------------------------ actions
Tick ==
    /\ ticks < MaxTicks
    /\ \E d \in TickSteps : now' = now + d
    /\ ticks' = ticks + 1
    /\ UNCHANGED <<jwt_enabled, read_only_without_jwt, issued, store, last_id,
                   upd, resp, created, gone, ack_title>>

Reply(r) ==
    /\ resp' = r
    /\ UNCHANGED <<jwt_enabled, read_only_without_jwt, now, ticks>>

login(b) ==
    /\ IF ~b.parsed THEN
            /\ Reply(Response("login", 0, NoBody, 400, <<>>))
            /\ UNCHANGED issued
       ELSE IF ~jwt_enabled THEN
            /\ Reply(Response("login", 0, NoBody, 400, <<>>))
            /\ UNCHANGED issued
       ELSE IF trim(b.username) = <<>> \/ trim(b.password) = <<>> THEN
            /\ Reply(Response("login", 0, NoBody, 401, <<>>))
            /\ UNCHANGED issued
       ELSE LET tok == [sub |-> b.username, exp |-> now + TokenTTL,
                        key |-> "server"] IN
            /\ Cardinality(issued \cup {tok}) <= MaxTokens
            /\ issued' = issued \cup {tok}
            /\ Reply(Response("login", 0, NoBody, 200, <<>>))
    /\ UNCHANGED <<store, last_id, upd, created, gone, ack_title>>

create_task(h, b) ==
    /\ IF ~b.parsed THEN
            /\ Reply(Response("create", 0, b, 400, <<>>))
            /\ UNCHANGED <<store, last_id, created, gone>>
       ELSE IF ~ensure_auth(h, "POST") THEN
            /\ Reply(Response("create", 0, b, 401, <<>>))
            /\ UNCHANGED <<store, last_id, created, gone>>
       ELSE IF ~validate_create(b) THEN
            /\ Reply(Response("create", 0, b, 400, <<>>))
            /\ UNCHANGED <<store, last_id, created, gone>>
       ELSE LET row == insert_row(b.title) IN
            /\ last_id < MaxTasks
            /\ store' = [i \in DOMAIN store \cup {row.id} |->
                            IF i = row.id THEN row ELSE store[i]]
            /\ last_id' = row.id
            /\ created' = Append(created, row.id)
            /\ gone' = gone \ {row.id}
            /\ Reply(Response("create", row.id, b, 201, <<row>>))
    /\ UNCHANGED <<issued, upd, ack_title>>

list_tasks(h) ==
    /\ Reply(Response("list", 0, NoBody, 200, rows_desc(store, DOMAIN store)))
    /\ UNCHANGED <<issued, store, last_id, upd, created, gone, ack_title>>

get_task(h, id) ==
    /\ IF id \in DOMAIN store
       THEN Reply(Response("get", id, NoBody, 200, <<store[id]>>))
       ELSE Reply(Response("get", id, NoBody, 404, <<>>))
    /\ UNCHANGED <<issued, store, last_id, upd, created, gone, ack_title>>

\* update_task up to and including its SELECT
update_task_read(w, h, id, b) ==
    /\ upd[w].phase = "idle"
    /\ IF ~b.parsed THEN
            /\ Reply(Response("update", id, NoBody, 400, <<>>))
            /\ upd' = [upd EXCEPT ![w] = Idle]
       ELSE IF ~ensure_auth(h, "PUT") THEN
            /\ Reply(Response("update", id, NoBody, 401, <<>>))
            /\ upd' = [upd EXCEPT ![w] = Idle]
       ELSE IF ~validate_update(b) THEN
            /\ Reply(Response("update", id, NoBody, 400, <<>>))
            /\ upd' = [upd EXCEPT ![w] = Idle]
       ELSE IF id \notin DOMAIN store THEN
            /\ Reply(Response("update", id, NoBody, 404, <<>>))
            /\ upd' = [upd EXCEPT ![w] = Idle]
       ELSE /\ upd' = [upd EXCEPT ![w] =
                        [phase |-> "read", id |-> id, body |-> b,
                         current |-> store[id]]]
            /\ UNCHANGED <<jwt_enabled, read_only_without_jwt, now, ticks, resp>>
    /\ UNCHANGED <<issued, store, last_id, created, gone, ack_title>>

\* update_task from its UPDATE ... RETURNING to the response
update_task_write(w) ==
    /\ upd[w].phase = "read"
    /\ LET id == upd[w].id
           new == merged(upd[w].body, base_row(w))
           st == apply_update(store, id, new)
           status == IF id \in DOMAIN st THEN 200 ELSE 500 IN
        /\ store' = st
        /\ upd' = [upd EXCEPT ![w] = Idle]
        /\ ack_title' = IF status = 200 /\ upd[w].body.title # None
                         THEN [ack_title EXCEPT ![id] = upd[w].body.title]
                         ELSE ack_title
        /\ Reply(Response("update", id, upd[w].body, status,
                          IF status = 200 THEN <<st[id]>> ELSE <<>>))
    /\ UNCHANGED <<issued, last_id, created, gone>>

delete_task(h, id) ==
    /\ IF ~ensure_auth(h, "DELETE") THEN
            /\ Reply(Response("delete", id, NoBody, 401, <<>>))
            /\ UNCHANGED <<store, gone>>
       ELSE IF id \notin DOMAIN store THEN
            /\ Reply(Response("delete", id, NoBody, 404, <<>>))
            /\ UNCHANGED <<store, gone>>
       ELSE /\ store' = apply_delete(store, id)
            /\ gone' = gone \cup {id}
            /\ Reply(Response("delete", id, NoBody, 204, <<>>))
    /\ UNCHANGED <<issued, last_id, upd, created, ack_title>>

\* The whole server, serving one update at a time.
Next ==
    \/ Tick
    \/ \E b \in LoginBodies : login(b)
    \/ \E h \in Headers, b \in CreateBodies : create_task(h, b)
    \/ \E h \in Headers : list_tasks(h)
    \/ \E h \in Headers, id \in Ids : get_task(h, id)
    \/ \E h \in Headers, id \in Ids, b \in FewUpdateBodies :
            update_task_read("u1", h, id, b)
    \/ update_task_write("u1")
    \/ \E h \in Headers, id \in Ids : delete_task(h, id)

Spec == Init /\ [][Next]_vars

\* The task handlers of an open server (no JWT_SECRET) with the clock held
\* still, serving two updates concurrently.  The auth gate only ever refuses
\* a request, so the open server shows every behaviour of the tasks table.
InitStore == Init /\ ~jwt_enabled /\ read_only_without_jwt

NextStore ==
    \/ \E b \in StoreCreateBodies : create_task(<<>>, b)
    \/ list_tasks(<<>>)
    \/ \E id \in Ids : get_task(<<>>, id)
    \/ \E w \in Workers, id \in Ids, b \in UpdateBodies :
            update_task_read(w, <<>>, id, b)
    \/ \E w \in Workers : update_task_write(w)
    \/ \E id \in Ids : delete_task(<<>>, id)

SpecStore == InitStore /\ [][NextStore]_vars

\* ============================================================== claims
\* What the specification calls a valid bearer token: the header has the
\* form "Bearer <token>", the token was signed by the server (login issued
\* it), and its expiry has not passed.
ValidToken(h) ==
    /\ Len(h) = 2
    /\ h[1] = "Bearer"
    /\ h[2] \in issued
    /\ now <= h[2].exp

\* C1: with a signing secret configured, a POST, PUT or DELETE request that
\* lacks a valid bearer token is answered 401 whatever its body and whatever
\* the read-only flag, and leaves the stored tasks unchanged; without a
\* secret the same requests are not refused for want of a header.
C1_MutatingGated ==
    [][/\ jwt_enabled =>
            \A h \in Headers : ~ValidToken(h) =>
                /\ \A b \in CreateBodies :
                        create_task(h, b) =>
                            resp'.status = 401 /\ store' = store
                /\ \A id \in Ids, b \in FewUpdateBodies :
                        update_task_read("u1", h, id, b) =>
                            /\ resp'.op = "update" /\ resp'.status = 401
                            /\ upd'["u1"].phase = "idle"
                            /\ store' = store
                /\ \A id \in Ids :
                        delete_task(h, id) =>
                            resp'.status = 401 /\ store' = store
       /\ ~jwt_enabled =>
            /\ \A b \in CreateBodies :
                    create_task(<<>>, b) => resp'.status # 401
            /\ \A id \in Ids :
                    delete_task(<<>>, id) => resp'.status # 401
      ]_vars

\* C2: with a signing secret configured and the read-only flag false, a GET
\* of the task list or of one task without a valid bearer token is answered
\* 401 and returns no task data.
C2_ReadsGated ==
    [][(jwt_enabled /\ ~read_only_without_jwt) =>
            \A h \in Headers : ~ValidToken(h) =>
                /\ list_tasks(h) =>
                        resp'.status = 401 /\ resp'.tasks = <<>>
                /\ \A id \in Ids :
                        get_task(h, id) =>
                            resp'.status = 401 /\ resp'.tasks = <<>>
      ]_vars

\* C3, as amended: an authorized create request whose title has length zero
\* is answered 400 and persists no row.
C3_EmptyTitleRejected ==
    [][\A h \in Headers, b \in CreateBodies :
            (/\ b.parsed
             /\ b.title = <<>>
             /\ (~jwt_enabled \/ ValidToken(h))
             /\ create_task(h, b)) =>
                resp'.status = 400 /\ store' = store
      ]_vars

\* On a server with auth enabled a create whose body deserialized with an
\* empty title has passed the auth gate and been answered 400.
C3_Witness ==
    /\ jwt_enabled
    /\ resp.op = "create" /\ resp.status = 400
    /\ resp.body.parsed
    /\ resp.body.title = <<>>

\* C3, as claimed: an authorized create request whose title is empty or
\* only whitespace is answered 400 and persists no row.
C3_BlankTitleRejected ==
    [][\A h \in Headers, b \in CreateBodies :
            (/\ create_task(h, b)
             /\ b.parsed
             /\ (~jwt_enabled \/ ValidToken(h))
             /\ trim(b.title) = <<>>) =>
                resp'.status = 400 /\ store' = store
      ]_vars

\* C4: a token returned by a successful login carries exp = issue time + 12
\* hours; presented to a gated endpoint up to its expiry it passes the auth
\* gate, and presented after its expiry it is answered 401.
C4_TokenLifetime ==
    [][jwt_enabled =>
            /\ \A b \in LoginBodies :
                    (login(b) /\ resp'.status = 200) =>
                        \E t \in issued' :
                            /\ t.sub = b.username
                            /\ t.exp = now + TokenTTL
            /\ \A t \in issued, id \in Ids :
                    delete_task(<<"Bearer", t>>, id) =>
                        IF now <= t.exp THEN resp'.status # 401
                        ELSE resp'.status = 401
      ]_vars

C6_UpdateMerges ==
    [][/\ \A w \in Workers :
            (/\ upd[w].phase = "read"
             /\ upd[w].id \in DOMAIN store
             /\ store[upd[w].id] = upd[w].current
             /\ update_task_write(w)) =>
                LET id == upd[w].id
                    b == upd[w].body
                    old == store[id]
                    new == store'[id] IN
                /\ DOMAIN store' = DOMAIN store
                /\ new.title =
                        IF b.title = None THEN old.title ELSE b.title[1]
                /\ new.completed =
                        IF b.completed = None THEN old.completed
                        ELSE b.completed[1]
                /\ new.id = old.id
                /\ new.created_at = old.created_at
                /\ \A j \in DOMAIN store \ {id} : store'[j] = store[j]
                /\ resp'.status = 200
                /\ resp'.tasks = <<new>>
       /\ \A w \in Workers, id \in Ids, b \in UpdateBodies :
            (/\ id \notin DOMAIN store
             /\ b.parsed
             /\ (b.title = None \/ Len(b.title[1]) > 0)
             /\ update_task_read(w, <<>>, id, b)) =>
                /\ resp'.op = "update" /\ resp'.status = 404
                /\ store' = store
                /\ upd'[w].phase = "idle"
      ]_vars

\* update(id, completed = true) with no title has answered 200: the title is
\* the one the task was created with and completed is set.
C6_Witness ==
    /\ resp.op = "update" /\ resp.status = 200
    /\ resp.body.title = None
    /\ resp.body.completed = Some(TRUE)
    /\ resp.tasks[1].title = <<"a">>
    /\ resp.tasks[1].completed
    /\ store[resp.id] = resp.tasks[1]

\* C7: once delete(id) has answered 204 the row stays gone: it is in the
\* table again only if a create was assigned that id, a later get(id) is
\* answered 404 and so is a later authorized delete(id), also when an
\* update that read the row before the delete writes after it.
C7_DeletedStaysGone ==
    [][\A id \in gone :
            /\ id \in DOMAIN store' =>
                    (created' # created /\ created'[Len(created')] = id)
            /\ \A h \in Headers :
                    get_task(h, id) => resp'.status = 404
            /\ \A h \in Headers :
                    (delete_task(h, id) /\ resp'.status # 401) =>
                        resp'.status = 404
      ]_vars

\* An update that read the row before its delete has written after it, and
\* the row is still absent.
C7_Witness ==
    /\ resp.op = "update" /\ resp.status = 500
    /\ resp.id \in gone
    /\ resp.id \notin DOMAIN store

\* C8: every stored task has a title of non-zero length.
C8_TitleNonEmpty ==
    \A id \in DOMAIN store : Len(store[id].title) > 0

\* An update that supplied no title has written back the title it read,
\* which an earlier update had set.
C8_Witness ==
    /\ resp.op = "update" /\ resp.status = 200
    /\ resp.body.title = None
    /\ resp.id \in DOMAIN store
    /\ store[resp.id].title = <<"b">>

\* C9: update's write is unconditional and uses the values of its own read:
\* whenever the row still exists the write succeeds with 200 and stores the
\* payload merged into the row as read, whatever the row holds by then.
C9_WriteUsesStaleRead ==
    [][\A w \in Workers :
            (/\ upd[w].phase = "read"
             /\ upd[w].id \in DOMAIN store
             /\ update_task_write(w)) =>
                LET b == upd[w].body
                    read == upd[w].current
                    new == store'[upd[w].id] IN
                /\ resp'.status = 200
                /\ new.title =
                        IF b.title = None THEN read.title ELSE b.title[1]
                /\ new.completed =
                        IF b.completed = None THEN read.completed
                        ELSE b.completed[1]
      ]_vars

\* A lost update: an update supplying only a title was answered 200, then an
\* update supplying only completed was answered 200, and the stored row
\* holds the second's completed with a title that is not the first's.
C9_Witness ==
    /\ resp.op = "update" /\ resp.status = 200
    /\ resp.body.title = None
    /\ resp.body.completed = Some(TRUE)
    /\ resp.id \in DOMAIN store
    /\ ack_title[resp.id] # None
    /\ store[resp.id].title # ack_title[resp.id][1]
    /\ store[resp.id].completed

\* C10: with a store that never fails on I/O, an authorized and valid update
\* ends with 200 or 404, never 500, also when a delete removes the row
\* between the update's read and its write.
C10_UpdateNeverInternal ==
    (resp.op = "update" /\ resp.status \notin {400, 401}) =>
        resp.status \in {200, 404}

====
